---- MODULE Spec2Model ----
(***************************************************************************)
(* Transaction builders (tx_builder/cheque.rs, tx_builder/transfer.rs) and *)
(* script signers (unlock/signer.rs) of ckb-sdk-rust.                      *)
(*                                                                         *)
(* Byte strings are sequences of digits in base ByteBase (256 in the       *)
(* program); u128 is 16 such digits, u64 is 8, a script hash prefix is 20. *)
(***************************************************************************)
EXTENDS Integers, Sequences, FiniteSets, TLC

\* A caller of a builder: the builder it made (self), what it passed and got.
VARIABLES phase, builder, self, cell_dep_resolver, overflow_checks, result

\* A transaction under signature: the signer and the script group it signs,
\* the transaction as first handed over (tx0), before the last sign_tx call
\* (tx_before) and now (tx), the wallet and result of the last call, and
\* whether that call repeated a successful call of the same wallet; and what
\* the last match_args call on the script's args came to (matched).
VARIABLES signer, script_group, tx0, tx_before, tx, last_wallet, sres, repeat, matched

bvars == <<phase, builder, self, cell_dep_resolver, overflow_checks, result>>

svars == <<signer, script_group, tx0, tx_before, tx, last_wallet, sres, repeat, matched>>

vars == <<bvars, svars>>

\* ------------------------------------------------------------------ bounds

\* The number base of one byte (256 in the program).
ByteBase == 2

\* Longest list of cheque inputs / out-points / outputs a caller passes.
MaxInputs == 2

\* Most witnesses of a transaction handed to a signer.
MaxWitnesses == 3

\* ------------------------------------------------------- program constants

\* Length of a cell data holding a little-endian u128 amount.
AMOUNT_LEN == 16

\* Length of a packed u64 capacity.
CAPACITY_LEN == 8

\* Length of the cheque lock args.
CHEQUE_ARGS_LEN == 40

\* Length of a script hash prefix (blake160).
HASH_PREFIX_LEN == 20

\* since value of a cheque input withdrawn by the sender (stands for
\* 0xA000000000000006).
CHEQUE_CELL_SINCE == 6

\* Length of a secp256k1 signature with its recovery id.
SIGNATURE_LEN == 65

\* ------------------------------------------------------------ byte strings

RECURSIVE Pow(_, _)
Pow(b, n) == IF n = 0 THEN 1 ELSE b * Pow(b, n - 1)

U128_MODULUS == Pow(ByteBase, AMOUNT_LEN)

U64_MODULUS == Pow(ByteBase, CAPACITY_LEN)

\* n.to_le_bytes() of an integer of len bytes.
to_le_bytes(n, len) == [i \in 1..len |-> (n \div Pow(ByteBase, i - 1)) % ByteBase]

\* u128::from_le_bytes(bytes)
RECURSIVE from_le_bytes(_)
from_le_bytes(bytes) ==
    IF bytes = <<>> THEN 0
    ELSE Head(bytes) + ByteBase * from_le_bytes(Tail(bytes))

Some(x) == <<x>>

None == <<>>

\* ----------------------------------------------------------------- scripts

\* Script { code_hash, hash_type, args }. Code hashes: 1 secp256k1 sighash,
\* 2 cheque, 3 sudt, 4 anyone-can-pay. Hash types: 0 data, 1 type.
MkScript(code, ht, args) == [code_hash |-> code, hash_type |-> ht, args |-> args]

\* ScriptId::from(&script): the code hash and the hash type, without the args.
ScriptIdOf(script) == <<script.code_hash, script.hash_type>>

\* script.calc_script_hash()[0..20]: blake2b-256 of the serialized script
\* (an injective numbering of the scripts below), cut to its first 20 bytes.
calc_script_hash20(script) ==
    to_le_bytes(1 + script.hash_type + 2 * script.code_hash
                  + 16 * (from_le_bytes(script.args) % 64)
                  + 1024 * Len(script.args),
                HASH_PREFIX_LEN)

\* A 20-byte public key hash.
KeyHash(k) == to_le_bytes(k, HASH_PREFIX_LEN)

SenderA == MkScript(1, 1, KeyHash(1))
SenderB == MkScript(4, 1, KeyHash(2))
ReceiverLock == MkScript(1, 1, KeyHash(3))

SenderScripts == {SenderA, SenderB}

\* A cheque lock: args = receiver_lock_hash[0..20] || sender_lock_hash[0..20]
ChequeLock(receiver, sender) ==
    MkScript(2, 1, calc_script_hash20(receiver) \o calc_script_hash20(sender))

ChequeLockA == ChequeLock(ReceiverLock, SenderA)
ChequeLockB == ChequeLock(ReceiverLock, SenderB)
\* Cheque locks whose args are one byte too long, one byte too short.
ChequeLockLong == MkScript(2, 1, ChequeLockA.args \o <<0>>)
ChequeLockShort == MkScript(2, 1, SubSeq(ChequeLockA.args, 1, CHEQUE_ARGS_LEN - 1))

SudtA == MkScript(3, 1, KeyHash(1))
SudtB == MkScript(3, 0, KeyHash(2))

ScriptIds == {<<c, h>> : c \in 1..4, h \in 0..1}

\* ---------------------------------------------- the dependency interfaces

\* CellOutput { capacity (packed u64), lock, type_ (Option) } and its data.
MkCell(capacity, lock, type_, data) ==
    [output |-> [capacity |-> to_le_bytes(capacity, CAPACITY_LEN),
                 lock |-> lock, type_ |-> type_],
     data |-> data]

Amount(n) == to_le_bytes(n, AMOUNT_LEN)

HalfU128 == U128_MODULUS \div 2

\* The live cells the TransactionDependencyProvider knows, by out-point.
\* 1..9 are cheque cells, 10..13 receiver cells; any other out-point is unknown.
LiveCells ==
    <<MkCell(100, ChequeLockA, Some(SudtA), Amount(1)),
      MkCell(200, ChequeLockA, Some(SudtA), Amount(HalfU128)),
      MkCell(100, ChequeLockB, Some(SudtA), Amount(1)),
      MkCell(100, ChequeLockLong, Some(SudtA), Amount(1)),
      MkCell(100, ChequeLockShort, Some(SudtA), Amount(1)),
      MkCell(100, ChequeLockA, Some(SudtB), Amount(1)),
      MkCell(100, ChequeLockA, None, Amount(1)),
      MkCell(100, ChequeLockA, Some(SudtA), SubSeq(Amount(1), 1, AMOUNT_LEN - 1)),
      MkCell(100, ChequeLockA, Some(SudtA), Amount(1) \o <<0>>),
      MkCell(150, ReceiverLock, Some(SudtA), Amount(5)),
      MkCell(150, ReceiverLock, Some(SudtA), Amount(HalfU128)),
      MkCell(150, ReceiverLock, None, Amount(5)),
      MkCell(150, ReceiverLock, Some(SudtA), SubSeq(Amount(5), 1, AMOUNT_LEN - 1))>>

\* An out-point the provider does not know.
UnknownOutPoint == Len(LiveCells) + 1

ChequeOutPoints == 1..9 \cup {UnknownOutPoint}

ReceiverOutPoints == 10..13 \cup {UnknownOutPoint}

\* tx_dep_provider.get_cell(out_point): Some(cell), or None for an error.
get_cell(out_point) ==
    IF out_point \in DOMAIN LiveCells THEN Some(LiveCells[out_point].output) ELSE None

\* tx_dep_provider.get_cell_data(out_point)
get_cell_data(out_point) ==
    IF out_point \in DOMAIN LiveCells THEN Some(LiveCells[out_point].data) ELSE None

\* The CellDepResolvers of the model: resolve(script_id) is Some(cell_dep) or None.
ResolverFull == [id \in ScriptIds |-> Some(2 * id[1] + id[2])]

\* The cheque lock and both sudt types live in one cell-dep (a dep group).
ResolverShared ==
    [id \in ScriptIds |-> IF id[1] \in {2, 3} THEN Some(1) ELSE Some(2 * id[1] + id[2])]

ResolverNoCheque ==
    [id \in ScriptIds |-> IF id[1] = 2 THEN None ELSE Some(2 * id[1] + id[2])]

ResolverNoSudt ==
    [id \in ScriptIds |-> IF id[1] = 3 THEN None ELSE Some(2 * id[1] + id[2])]

Resolvers == {ResolverFull, ResolverShared, ResolverNoCheque, ResolverNoSudt}

\* CellInput { previous_output, since }
CellInput(out_point, since) == [previous_output |-> out_point, since |-> since]

\* ---------------------------------------------------------- builder results

NoTx == [cell_deps |-> <<>>, header_deps |-> <<>>, inputs |-> <<>>,
         outputs |-> <<>>, outputs_data |-> <<>>, witnesses |-> <<>>]

\* TransactionBuilder::default().set_...().build()
BuildTx(cell_deps, inputs, outputs, outputs_data) ==
    [cell_deps |-> cell_deps, header_deps |-> <<>>, inputs |-> inputs,
     outputs |-> outputs, outputs_data |-> outputs_data, witnesses |-> <<>>]

Ok(t) == [tag |-> "Ok", err |-> "", tx |-> t]

Err(e) == [tag |-> "Err", err |-> e, tx |-> NoTx]

\* The call aborts (a panic): no value is returned.
Panic(why) == [tag |-> "Panic", err |-> why, tx |-> NoTx]

\* The orders in which the elements of a HashSet come out of into_iter().
Orders(S) ==
    {s \in [1..Cardinality(S) -> S] : \A i, j \in 1..Cardinality(S) : s[i] = s[j] => i = j}

\* a + b on integers of the given modulus: with overflow checks compiled in
\* the addition panics on overflow, without them it wraps.
AddOverflows(a, b, modulus) == a + b >= modulus

WrappingAdd(a, b, modulus) == (a + b) % modulus

\* ------------------------------------------------------ ChequeClaimBuilder

\* What the loop over self.inputs carries from one input to the next.
ClaimLoopInit(cell_deps) ==
    [tag |-> "Ok", err |-> "", cell_deps |-> cell_deps,
     cheque_total_amount |-> 0, cheque_total_capacity |-> 0,
     last_lock_script |-> None]

LoopErr(acc, e) == [acc EXCEPT !.tag = "Err", !.err = e]

LoopPanic(acc, why) == [acc EXCEPT !.tag = "Panic", !.err = why]

\* One pass of `for input in &self.inputs` (cheque.rs 88-141).
ClaimLoopBody(acc, input, receiver_input_cell, receiver_type_script, resolver, checks) ==
    LET out_point == input.previous_output
        input_cell == get_cell(out_point)
        input_data == get_cell_data(out_point)
        \* the type script is read from the receiver's cell, not from input_cell
        type_script == receiver_input_cell.type_
    IN  IF input_cell = None \/ input_data = None THEN LoopErr(acc, "TxDep")
        ELSE IF type_script = None THEN LoopErr(acc, "InvalidParameter")
        ELSE IF Len(input_data[1]) # AMOUNT_LEN THEN LoopErr(acc, "InvalidParameter")
        ELSE IF type_script[1] # receiver_type_script THEN LoopErr(acc, "InvalidParameter")
        ELSE
        LET input_amount == from_le_bytes(input_data[1])
            input_capacity == from_le_bytes(input_cell[1].capacity)
            lock_script == input_cell[1].lock
            lock_cell_dep == resolver[ScriptIdOf(lock_script)]
        IN  IF acc.last_lock_script # None /\ acc.last_lock_script # Some(lock_script)
            THEN LoopErr(acc, "InvalidParameter")
            ELSE IF lock_cell_dep = None THEN LoopErr(acc, "ResolveCellDepFailed")
            ELSE IF checks /\ AddOverflows(acc.cheque_total_amount, input_amount, U128_MODULUS)
            THEN LoopPanic(acc, "attempt to add with overflow")
            ELSE IF checks /\ AddOverflows(acc.cheque_total_capacity, input_capacity, U64_MODULUS)
            THEN LoopPanic(acc, "attempt to add with overflow")
            ELSE [acc EXCEPT
                    !.last_lock_script = Some(lock_script),
                    !.cell_deps = @ \cup {lock_cell_dep[1]},
                    !.cheque_total_amount = WrappingAdd(@, input_amount, U128_MODULUS),
                    !.cheque_total_capacity = WrappingAdd(@, input_capacity, U64_MODULUS)]

\* The loop over self.inputs from input i on; the first error ends it.
RECURSIVE ClaimLoop(_, _, _, _, _, _, _)
ClaimLoop(acc, inputs, i, receiver_input_cell, receiver_type_script, resolver, checks) ==
    IF i > Len(inputs) \/ acc.tag # "Ok" THEN acc
    ELSE ClaimLoop(ClaimLoopBody(acc, inputs[i], receiver_input_cell,
                                 receiver_type_script, resolver, checks),
                   inputs, i + 1, receiver_input_cell, receiver_type_script,
                   resolver, checks)

\* The checks of the cheque lock args against the sender lock script
\* (cheque.rs 143-161, 268-285): "" when they pass.
ChequeArgsError(cheque_lock_script, sender_lock_script) ==
    LET cheque_lock_args == cheque_lock_script.args
    IN  IF Len(cheque_lock_args) # CHEQUE_ARGS_LEN THEN "InvalidParameter"
        ELSE IF calc_script_hash20(sender_lock_script)
                  # SubSeq(cheque_lock_args, HASH_PREFIX_LEN + 1, CHEQUE_ARGS_LEN)
        THEN "InvalidParameter"
        ELSE ""

\* The outputs and outputs data of the claim transaction (cheque.rs 163-175).
ClaimOutputs(receiver_input_cell, sender_lock_script, cheque_total_capacity) ==
    <<receiver_input_cell,
      [capacity |-> to_le_bytes(cheque_total_capacity, CAPACITY_LEN),
       lock |-> sender_lock_script, type_ |-> None]>>

ClaimOutputsData(receiver_output_amount) ==
    <<to_le_bytes(receiver_output_amount, AMOUNT_LEN), <<>>>>

\* The inputs of the claim transaction (cheque.rs 46-47).
ClaimInputs(slf) == Append(slf.inputs, slf.receiver_input)

\* ChequeClaimBuilder::build_base: the set of results the call can have
\* (one per order of the cell-deps set).
ClaimBuildBase(slf, resolver, checks) ==
    IF slf.inputs = <<>> THEN {Err("InvalidParameter")}
    ELSE
    LET receiver_out_point == slf.receiver_input.previous_output
        receiver_input_cell == get_cell(receiver_out_point)
        receiver_input_data == get_cell_data(receiver_out_point)
    IN  IF receiver_input_cell = None \/ receiver_input_data = None THEN {Err("TxDep")}
        ELSE IF receiver_input_cell[1].type_ = None THEN {Err("InvalidParameter")}
        ELSE IF Len(receiver_input_data[1]) # AMOUNT_LEN THEN {Err("InvalidParameter")}
        ELSE
        LET receiver_type_script == receiver_input_cell[1].type_[1]
            receiver_input_amount == from_le_bytes(receiver_input_data[1])
            receiver_type_cell_dep == resolver[ScriptIdOf(receiver_type_script)]
            receiver_lock_cell_dep == resolver[ScriptIdOf(receiver_input_cell[1].lock)]
        IN  IF receiver_type_cell_dep = None THEN {Err("ResolveCellDepFailed")}
            ELSE IF receiver_lock_cell_dep = None THEN {Err("ResolveCellDepFailed")}
            ELSE
            LET acc == ClaimLoop(
                    ClaimLoopInit({receiver_type_cell_dep[1], receiver_lock_cell_dep[1]}),
                    slf.inputs, 1, receiver_input_cell[1], receiver_type_script,
                    resolver, checks)
            IN  IF acc.tag = "Err" THEN {Err(acc.err)}
                ELSE IF acc.tag = "Panic" THEN {Panic(acc.err)}
                ELSE IF ChequeArgsError(acc.last_lock_script[1], slf.sender_lock_script) # ""
                THEN {Err(ChequeArgsError(acc.last_lock_script[1], slf.sender_lock_script))}
                ELSE IF checks /\ AddOverflows(receiver_input_amount,
                                               acc.cheque_total_amount, U128_MODULUS)
                THEN {Panic("attempt to add with overflow")}
                ELSE {Ok(BuildTx(cell_deps, ClaimInputs(slf),
                                 ClaimOutputs(receiver_input_cell[1], slf.sender_lock_script,
                                              acc.cheque_total_capacity),
                                 ClaimOutputsData(WrappingAdd(receiver_input_amount,
                                                              acc.cheque_total_amount,
                                                              U128_MODULUS))))
                      : cell_deps \in Orders(acc.cell_deps)}

\* --------------------------------------------------- ChequeWithdrawBuilder

WithdrawLoopInit ==
    [tag |-> "Ok", err |-> "", inputs |-> <<>>,
     cheque_total_amount |-> 0, cheque_total_capacity |-> 0,
     last_lock_script |-> None, last_type_script |-> None]

\* One pass of `for out_point in &self.out_points` (cheque.rs 214-254).
WithdrawLoopBody(acc, out_point, checks) ==
    LET input_cell == get_cell(out_point)
        input_data == get_cell_data(out_point)
    IN  IF input_cell = None \/ input_data = None THEN LoopErr(acc, "TxDep")
        ELSE
        LET lock_script == input_cell[1].lock
            type_script == input_cell[1].type_
        IN  IF type_script = None THEN LoopErr(acc, "InvalidParameter")
            ELSE IF acc.last_lock_script # None /\ acc.last_lock_script # Some(lock_script)
            THEN LoopErr(acc, "InvalidParameter")
            ELSE IF acc.last_type_script # None /\ acc.last_type_script # type_script
            THEN LoopErr(acc, "InvalidParameter")
            \* amount_bytes.copy_from_slice(input_data) of another length aborts
            ELSE IF Len(input_data[1]) # AMOUNT_LEN
            THEN LoopPanic(acc, "source slice length does not match destination slice length")
            ELSE
            LET input_amount == from_le_bytes(input_data[1])
                input_capacity == from_le_bytes(input_cell[1].capacity)
            IN  IF checks /\ AddOverflows(acc.cheque_total_capacity, input_capacity, U64_MODULUS)
                THEN LoopPanic(acc, "attempt to add with overflow")
                ELSE IF checks /\ AddOverflows(acc.cheque_total_amount, input_amount, U128_MODULUS)
                THEN LoopPanic(acc, "attempt to add with overflow")
                ELSE [acc EXCEPT
                        !.last_lock_script = Some(lock_script),
                        !.last_type_script = type_script,
                        !.cheque_total_capacity = WrappingAdd(@, input_capacity, U64_MODULUS),
                        !.cheque_total_amount = WrappingAdd(@, input_amount, U128_MODULUS),
                        !.inputs = Append(@, CellInput(out_point, CHEQUE_CELL_SINCE))]

RECURSIVE WithdrawLoop(_, _, _, _)
WithdrawLoop(acc, out_points, i, checks) ==
    IF i > Len(out_points) \/ acc.tag # "Ok" THEN acc
    ELSE WithdrawLoop(WithdrawLoopBody(acc, out_points[i], checks), out_points, i + 1, checks)

\* The single output of the withdraw transaction and its data (cheque.rs 287-296).
WithdrawOutputs(sender_lock_script, type_script, cheque_total_capacity) ==
    <<[capacity |-> to_le_bytes(cheque_total_capacity, CAPACITY_LEN),
       lock |-> sender_lock_script, type_ |-> Some(type_script)]>>

WithdrawOutputsData(cheque_total_amount) ==
    <<to_le_bytes(cheque_total_amount, AMOUNT_LEN)>>

\* A withdraw builder that forgets the type script's cell-dep.
WithdrawCellDeps_LockOnly(lock_cell_dep, type_cell_dep) == <<lock_cell_dep>>

\* let cell_deps = vec![lock_cell_dep, type_cell_dep] (cheque.rs 294, 299):
\* a Vec collected into a Vec.
WithdrawCellDeps(lock_cell_dep, type_cell_dep) == <<lock_cell_dep, type_cell_dep>>

\* ChequeWithdrawBuilder::build_base: the set of results the call can have.
WithdrawBuildBase(slf, resolver, checks) ==
    IF slf.out_points = <<>> THEN {Err("InvalidParameter")}
    ELSE
    LET acc == WithdrawLoop(WithdrawLoopInit, slf.out_points, 1, checks)
    IN  IF acc.tag = "Err" THEN {Err(acc.err)}
        ELSE IF acc.tag = "Panic" THEN {Panic(acc.err)}
        ELSE
        LET cheque_lock_script == acc.last_lock_script[1]
            type_script == acc.last_type_script[1]
            lock_cell_dep == resolver[ScriptIdOf(cheque_lock_script)]
            type_cell_dep == resolver[ScriptIdOf(type_script)]
        IN  IF lock_cell_dep = None THEN {Err("ResolveCellDepFailed")}
            ELSE IF type_cell_dep = None THEN {Err("ResolveCellDepFailed")}
            ELSE IF ChequeArgsError(cheque_lock_script, slf.sender_lock_script) # ""
            THEN {Err(ChequeArgsError(cheque_lock_script, slf.sender_lock_script))}
            ELSE {Ok(BuildTx(WithdrawCellDeps(lock_cell_dep[1], type_cell_dep[1]),
                             acc.inputs,
                             WithdrawOutputs(slf.sender_lock_script, type_script,
                                             acc.cheque_total_capacity),
                             WithdrawOutputsData(acc.cheque_total_amount)))}

\* ------------------------------------------------- CapacityTransferBuilder

TransferLoopInit ==
    [tag |-> "Ok", err |-> "", cell_deps |-> {}, outputs |-> <<>>, outputs_data |-> <<>>]

\* One pass of `for (output, output_data) in &self.outputs` (transfer.rs 34-44).
TransferLoopBody(acc, item, resolver) ==
    LET output == item[1]
        output_data == item[2]
        pushed == [acc EXCEPT !.outputs = Append(@, output),
                              !.outputs_data = Append(@, output_data)]
    IN  IF output.type_ = None THEN pushed
        ELSE IF resolver[ScriptIdOf(output.type_[1])] = None
        THEN LoopErr(pushed, "ResolveCellDepFailed")
        ELSE [pushed EXCEPT !.cell_deps = @ \cup {resolver[ScriptIdOf(output.type_[1])][1]}]

RECURSIVE TransferLoop(_, _, _, _)
TransferLoop(acc, outputs, i, resolver) ==
    IF i > Len(outputs) \/ acc.tag # "Ok" THEN acc
    ELSE TransferLoop(TransferLoopBody(acc, outputs[i], resolver), outputs, i + 1, resolver)

\* CapacityTransferBuilder::build_base: the set of results the call can have.
TransferBuildBase(slf, resolver) ==
    LET acc == TransferLoop(TransferLoopInit, slf.outputs, 1, resolver)
    IN  IF acc.tag = "Err" THEN {Err(acc.err)}
        ELSE {Ok(BuildTx(cell_deps, <<>>, acc.outputs, acc.outputs_data))
              : cell_deps \in Orders(acc.cell_deps)}

\* ------------------------------------------------------------ the callers

\* Sequences over S of length at most n.
SeqUpTo(S, n) == UNION {[1..k -> S] : k \in 0..n}

\* since values a caller gives a claim input.
Sinces == {0, CHEQUE_CELL_SINCE}

\* The cheque inputs a caller of ChequeClaimBuilder passes.
ClaimChequeInputs ==
    {CellInput(o, 0) : o \in ChequeOutPoints} \cup {CellInput(o, CHEQUE_CELL_SINCE) : o \in 1..2}

ClaimReceiverInputs ==
    {CellInput(o, 0) : o \in ReceiverOutPoints} \cup {CellInput(10, CHEQUE_CELL_SINCE)}

\* The outputs a caller of CapacityTransferBuilder passes.
TransferOutputs ==
    {<<[capacity |-> to_le_bytes(c, CAPACITY_LEN), lock |-> l, type_ |-> t], d>> :
        c \in {100}, l \in {SenderA, SenderB, ChequeLockA},
        t \in {None, Some(SudtA), Some(SudtB)}, d \in {<<>>, Amount(1)}}

BInit ==
    /\ phase = "idle"
    /\ builder = "none"
    /\ self = [inputs |-> <<>>]
    /\ cell_dep_resolver = ResolverFull
    /\ overflow_checks = FALSE
    /\ result = Err("")

\* A caller builds a ChequeClaimBuilder and calls build_base.
ClaimBuild ==
    /\ phase = "idle"
    /\ \E inputs \in SeqUpTo(ClaimChequeInputs, MaxInputs),
          receiver_input \in ClaimReceiverInputs,
          sender_lock_script \in SenderScripts,
          resolver \in Resolvers,
          checks \in BOOLEAN :
        /\ self' = [inputs |-> inputs, receiver_input |-> receiver_input,
                    sender_lock_script |-> sender_lock_script]
        /\ cell_dep_resolver' = resolver
        /\ overflow_checks' = checks
        /\ result' \in ClaimBuildBase(self', resolver, checks)
    /\ builder' = "claim"
    /\ phase' = "done"
    /\ UNCHANGED svars

\* A caller builds a ChequeWithdrawBuilder and calls build_base.
WithdrawBuild ==
    /\ phase = "idle"
    /\ \E out_points \in SeqUpTo(ChequeOutPoints, MaxInputs),
          sender_lock_script \in SenderScripts,
          resolver \in Resolvers,
          checks \in BOOLEAN :
        /\ self' = [out_points |-> out_points, sender_lock_script |-> sender_lock_script]
        /\ cell_dep_resolver' = resolver
        /\ overflow_checks' = checks
        /\ result' \in WithdrawBuildBase(self', resolver, checks)
    /\ builder' = "withdraw"
    /\ phase' = "done"
    /\ UNCHANGED svars

\* A caller builds a CapacityTransferBuilder and calls build_base.
TransferBuild ==
    /\ phase = "idle"
    /\ \E outputs \in SeqUpTo(TransferOutputs, MaxInputs),
          resolver \in Resolvers :
        /\ self' = [outputs |-> outputs]
        /\ cell_dep_resolver' = resolver
        /\ result' \in TransferBuildBase(self', resolver)
    /\ overflow_checks' = FALSE
    /\ builder' = "transfer"
    /\ phase' = "done"
    /\ UNCHANGED svars

BNext == ClaimBuild \/ WithdrawBuild \/ TransferBuild

\* ------------------------------------------------- properties: builders

RECURSIVE SumSeq(_)
SumSeq(q) == IF q = <<>> THEN 0 ELSE Head(q) + SumSeq(Tail(q))

Count(q, x) == Cardinality({i \in 1..Len(q) : q[i] = x})

\* The out-points of the cheque cells of the last call.
ChequeCellsOfCall ==
    IF builder = "claim" THEN [i \in 1..Len(self.inputs) |-> self.inputs[i].previous_output]
    ELSE IF builder = "withdraw" THEN self.out_points
    ELSE <<>>

ChequeCallOk == builder \in {"claim", "withdraw"} /\ result.tag = "Ok"

\* The sums of the cheque cells' amounts and capacities, as integers.
ChequeAmountSum ==
    SumSeq([i \in 1..Len(ChequeCellsOfCall) |->
               from_le_bytes(LiveCells[ChequeCellsOfCall[i]].data)])

ChequeCapacitySum ==
    SumSeq([i \in 1..Len(ChequeCellsOfCall) |->
               from_le_bytes(LiveCells[ChequeCellsOfCall[i]].output.capacity)])

ReceiverCell == LiveCells[self.receiver_input.previous_output]

\* The amount the token output must hold, as an integer.
ExpectedAmount ==
    IF builder = "claim" THEN from_le_bytes(ReceiverCell.data) + ChequeAmountSum
    ELSE ChequeAmountSum

\* C1: a cheque build whose amount sum leaves the u128 range, or whose
\* capacity sum leaves the u64 range, does not return a transaction.
C1_OverflowIsFailure ==
    ChequeCallOk => /\ ExpectedAmount < U128_MODULUS
                    /\ ChequeCapacitySum < U64_MODULUS

\* C2: a successful claim build has the cheque inputs in the caller's order
\* followed by the receiver input; outputs[0] is the receiver cell with data
\* receiver amount + sum of cheque amounts; outputs[1] has the sender lock, no
\* type, empty data and capacity the sum of the cheque capacities.
C2_ClaimTransaction ==
    (builder = "claim" /\ result.tag = "Ok") =>
        /\ result.tx.inputs = Append(self.inputs, self.receiver_input)
        /\ Len(result.tx.outputs) = 2 /\ Len(result.tx.outputs_data) = 2
        /\ result.tx.outputs[1] = ReceiverCell.output
        /\ Len(result.tx.outputs_data[1]) = AMOUNT_LEN
        /\ from_le_bytes(result.tx.outputs_data[1])
             = from_le_bytes(ReceiverCell.data) + ChequeAmountSum
        /\ result.tx.outputs[2].lock = self.sender_lock_script
        /\ result.tx.outputs[2].type_ = None
        /\ result.tx.outputs_data[2] = <<>>
        /\ from_le_bytes(result.tx.outputs[2].capacity) = ChequeCapacitySum
        /\ from_le_bytes(ReceiverCell.output.capacity) + ChequeCapacitySum
             = from_le_bytes(result.tx.outputs[1].capacity)
               + from_le_bytes(result.tx.outputs[2].capacity)

\* C3: a successful withdraw build has one input per out-point, in the
\* caller's order, each with since CHEQUE_CELL_SINCE, and one output with the
\* sender lock, the cheque cells' type, capacity the sum of the cheque
\* capacities and data the little-endian u128 sum of the cheque amounts.
C3_WithdrawTransaction ==
    (builder = "withdraw" /\ result.tag = "Ok") =>
        /\ result.tx.inputs
             = [i \in 1..Len(self.out_points) |->
                   CellInput(self.out_points[i], CHEQUE_CELL_SINCE)]
        /\ Len(result.tx.outputs) = 1 /\ Len(result.tx.outputs_data) = 1
        /\ result.tx.outputs[1].lock = self.sender_lock_script
        /\ \A i \in 1..Len(self.out_points) :
              result.tx.outputs[1].type_ = LiveCells[self.out_points[i]].output.type_
        /\ from_le_bytes(result.tx.outputs[1].capacity) = ChequeCapacitySum
        /\ Len(result.tx.outputs_data[1]) = AMOUNT_LEN
        /\ from_le_bytes(result.tx.outputs_data[1]) = ChequeAmountSum

\* The lock and type scripts of a cell output.
ScriptsOfOutput(output) ==
    {output.lock} \cup {output.type_[i] : i \in DOMAIN output.type_}

\* Every script of an input cell or an output of the returned transaction.
ReferencedScripts ==
    UNION ({ScriptsOfOutput(LiveCells[result.tx.inputs[i].previous_output].output) :
               i \in DOMAIN result.tx.inputs}
           \cup {ScriptsOfOutput(result.tx.outputs[i]) : i \in DOMAIN result.tx.outputs})

\* The scripts whose cell-dep the builder of the last call looks up.
ResolvedScripts ==
    IF builder = "claim"
    THEN ScriptsOfOutput(ReceiverCell.output)
         \cup {LiveCells[o].output.lock : o \in {ChequeCellsOfCall[i] : i \in DOMAIN ChequeCellsOfCall}}
    ELSE IF builder = "withdraw"
    THEN UNION {ScriptsOfOutput(LiveCells[o].output) :
                   o \in {ChequeCellsOfCall[i] : i \in DOMAIN ChequeCellsOfCall}}
    ELSE {result.tx.outputs[i].type_[1] :
             i \in {j \in DOMAIN result.tx.outputs : result.tx.outputs[j].type_ # None}}

DepListedOnce(script) ==
    /\ cell_dep_resolver[ScriptIdOf(script)] # None
    /\ Count(result.tx.cell_deps, cell_dep_resolver[ScriptIdOf(script)][1]) = 1

C5_NoDuplicateCellDeps ==
    result.tag = "Ok" =>
        \A i, j \in DOMAIN result.tx.cell_deps :
            result.tx.cell_deps[i] = result.tx.cell_deps[j] => i = j

\* The cheque cells of the last call exist and hold 16 bytes of data, the
\* receiver cell (claim) is a token cell, and no sum overflows: nothing but a
\* cheque invariant can make the call fail.
ChequeCallWellFormed ==
    /\ builder \in {"claim", "withdraw"}
    /\ ChequeCellsOfCall # <<>>
    /\ \A i \in DOMAIN ChequeCellsOfCall :
          /\ ChequeCellsOfCall[i] \in DOMAIN LiveCells
          /\ Len(LiveCells[ChequeCellsOfCall[i]].data) = AMOUNT_LEN
          /\ LiveCells[ChequeCellsOfCall[i]].output.type_ # None
    /\ builder = "claim" =>
          /\ self.receiver_input.previous_output \in DOMAIN LiveCells
          /\ ReceiverCell.output.type_ # None
          /\ Len(ReceiverCell.data) = AMOUNT_LEN
    /\ ExpectedAmount < U128_MODULUS
    /\ ChequeCapacitySum < U64_MODULUS

\* A cheque invariant is violated: two lock scripts among the cheque cells,
\* lock args not of 40 bytes, or a sender lock hash that is not args[20..40].
ChequeInvariantViolated ==
    \/ \E i, j \in DOMAIN ChequeCellsOfCall :
          LiveCells[ChequeCellsOfCall[i]].output.lock
            # LiveCells[ChequeCellsOfCall[j]].output.lock
    \/ \E i \in DOMAIN ChequeCellsOfCall :
          LET args == LiveCells[ChequeCellsOfCall[i]].output.lock.args
          IN  \/ Len(args) # CHEQUE_ARGS_LEN
              \/ SubSeq(args, HASH_PREFIX_LEN + 1, Len(args))
                   # calc_script_hash20(self.sender_lock_script)

\* C10: a cheque build whose inputs violate a cheque invariant returns
\* InvalidParameter, whatever the CellDepResolver answers.
C10_InvalidParameterFirst ==
    (ChequeCallWellFormed /\ ChequeInvariantViolated) => result = Err("InvalidParameter")

\* The cells of a claim call exist and the resolver knows every script.
ClaimCellsKnown ==
    /\ builder = "claim"
    /\ \A i \in DOMAIN ChequeCellsOfCall : ChequeCellsOfCall[i] \in DOMAIN LiveCells
    /\ self.receiver_input.previous_output \in DOMAIN LiveCells
    /\ \A id \in ScriptIds : cell_dep_resolver[id] # None

\* A cheque input cell of the claim has no type script, or one that is not
\* the receiver input cell's.
ClaimTypeMismatch ==
    \E i \in DOMAIN ChequeCellsOfCall :
        LiveCells[ChequeCellsOfCall[i]].output.type_ # ReceiverCell.output.type_

\* C11: a claim build over existing cells, one of whose cheque input cells
\* has no type script or a type script other than the receiver input cell's,
\* returns InvalidParameter and no transaction.
C11_TypeMismatchRejected ==
    (ClaimCellsKnown /\ ClaimTypeMismatch) => result = Err("InvalidParameter")

\* The cells of a cheque builder call exist and the resolver knows every script.
ChequeCellsKnown ==
    /\ builder \in {"claim", "withdraw"}
    /\ \A i \in DOMAIN ChequeCellsOfCall : ChequeCellsOfCall[i] \in DOMAIN LiveCells
    /\ builder = "claim" => self.receiver_input.previous_output \in DOMAIN LiveCells
    /\ \A id \in ScriptIds : cell_dep_resolver[id] # None

\* A cheque cell of the call, or the receiver cell of a claim, has data of a
\* length other than 16.
BadDataLength ==
    \/ \E i \in DOMAIN ChequeCellsOfCall :
          Len(LiveCells[ChequeCellsOfCall[i]].data) # AMOUNT_LEN
    \/ builder = "claim" /\ Len(ReceiverCell.data) # AMOUNT_LEN

\* C12: a claim or withdraw build over existing cells, one of which has data
\* of a length other than 16, returns InvalidParameter as an error value: it
\* neither aborts nor builds a transaction.
C12_DataLengthEnforced ==
    (ChequeCellsKnown /\ BadDataLength) => result = Err("InvalidParameter")

\* ------------------------------------------------------------- witnesses

\* WitnessArgs { lock, input_type, output_type }, each an Option of bytes.
\* A lock is a byte prefix followed by 65-byte slots, each all zero or a
\* signature.
WitnessArgs(lock, input_type, output_type) ==
    [lock |-> lock, input_type |-> input_type, output_type |-> output_type]

\* WitnessArgs::default()
WitnessArgsDefault == WitnessArgs(None, None, None)

\* A witness (packed bytes) is empty, the molecule encoding of a WitnessArgs,
\* or bytes that are no such encoding.
EmptyWitness == [kind |-> "empty", lock |-> None, input_type |-> None, output_type |-> None]

JunkWitness == [kind |-> "junk", lock |-> None, input_type |-> None, output_type |-> None]

\* witness_args.as_bytes(): the encoding of a WitnessArgs (never empty).
as_bytes(wa) ==
    [kind |-> "args", lock |-> wa.lock, input_type |-> wa.input_type,
     output_type |-> wa.output_type]

\* WitnessArgs::from_slice(bytes): Some(witness args), or None for an error.
from_slice(witness) ==
    IF witness.kind = "args"
    THEN Some(WitnessArgs(witness.lock, witness.input_type, witness.output_type))
    ELSE None

\* 65 zero bytes.
ZeroSlot == <<>>

Lock(prefix, slots) == [prefix |-> prefix, slots |-> slots]

\* The length of a lock in bytes.
LockLen(lock) == Len(lock.prefix) + SIGNATURE_LEN * Len(lock.slots)

\* witness.item_count(): the length of a witness in bytes (a molecule table of
\* three fields: a 16-byte header, and 4 bytes of length before each field
\* that is present).
item_count(witness) ==
    IF witness.kind = "empty" THEN 0
    ELSE IF witness.kind = "junk" THEN 3
    ELSE 16 + (IF witness.lock = None THEN 0 ELSE 4 + LockLen(witness.lock[1]))
            + (IF witness.input_type = None THEN 0 ELSE 4 + Len(witness.input_type[1]))
            + (IF witness.output_type = None THEN 0 ELSE 4 + Len(witness.output_type[1]))

\* tx.hash(): the hash of the transaction without its witnesses.
TxHash(t) == <<t.cell_deps, t.header_deps, t.inputs, t.outputs, t.outputs_data>>

\* tx.as_advanced_builder().set_witnesses(witnesses).build()
SetWitnesses(t, witnesses) == [t EXCEPT !.witnesses = witnesses]

\* script_group.input_indices[k] is a 0-based position; sequences here are 1-based.
At(witnesses, idx) == witnesses[idx + 1]

\* (witness.item_count() as u64).to_le_bytes() and witness.raw_data()
LenAndData(witness) == <<item_count(witness), witness>>

\* The sequences of qs, one after the other.
RECURSIVE Concat(_)
Concat(qs) == IF qs = <<>> THEN <<>> ELSE Head(qs) \o Concat(Tail(qs))

\* A digest that leaves the outer witnesses out.
Blake2bDigest_NoOuter(tx_hash, init_witness, other_witnesses, outter_witnesses) ==
    <<tx_hash, item_count(init_witness), init_witness>> \o Concat(other_witnesses)

\* new_blake2b(), the updates of signer.rs 110-121, finalize: the digest, as
\* the sequence of what is fed to the hasher.
Blake2bDigest(tx_hash, init_witness, other_witnesses, outter_witnesses) ==
    <<tx_hash, item_count(init_witness), init_witness>>
      \o Concat(other_witnesses) \o Concat(outter_witnesses)

\* A generate_message that hashes the first witness of the group as it
\* stands, its lock not replaced by zero_lock.
generate_message_KeepLock(t, group, zero_lock) ==
    IF Len(t.witnesses) <= group.input_indices[1] THEN Err("WitnessNotEnough")
    ELSE
    LET witnesses == t.witnesses
        witness_data == At(witnesses, group.input_indices[1])
        parsed == IF witness_data.kind = "empty" THEN Some(WitnessArgsDefault)
                  ELSE from_slice(witness_data)
    IN  IF parsed = None THEN Err("InvalidWitnessArgs")
        ELSE
        LET init_witness == as_bytes(parsed[1])
            rest == SelectSeq(Tail(group.input_indices), LAMBDA idx : idx < Len(witnesses))
            other_witnesses == [k \in 1..Len(rest) |-> LenAndData(At(witnesses, rest[k]))]
            outter_witnesses ==
                IF Len(t.inputs) < Len(witnesses)
                THEN [k \in 1..(Len(witnesses) - Len(t.inputs)) |->
                         LenAndData(witnesses[Len(t.inputs) + k])]
                ELSE <<>>
        IN  [tag |-> "Ok", err |-> "", tx |-> NoTx,
             message |-> Blake2bDigest(TxHash(t), init_witness,
                                       other_witnesses, outter_witnesses)]

\* ScriptSigner::generate_message
generate_message(t, group, zero_lock) ==
    IF Len(t.witnesses) <= group.input_indices[1] THEN Err("WitnessNotEnough")
    ELSE
    LET witnesses == t.witnesses
        witness_data == At(witnesses, group.input_indices[1])
        parsed == IF witness_data.kind = "empty" THEN Some(WitnessArgsDefault)
                  ELSE from_slice(witness_data)
    IN  IF parsed = None THEN Err("InvalidWitnessArgs")
        ELSE
        LET init_witness == as_bytes([parsed[1] EXCEPT !.lock = Some(zero_lock)])
            rest == SelectSeq(Tail(group.input_indices), LAMBDA idx : idx < Len(witnesses))
            other_witnesses == [k \in 1..Len(rest) |-> LenAndData(At(witnesses, rest[k]))]
            outter_witnesses ==
                IF Len(t.inputs) < Len(witnesses)
                THEN [k \in 1..(Len(witnesses) - Len(t.inputs)) |->
                         LenAndData(witnesses[Len(t.inputs) + k])]
                ELSE <<>>
        IN  [tag |-> "Ok", err |-> "", tx |-> NoTx,
             message |-> Blake2bDigest(TxHash(t), init_witness,
                                       other_witnesses, outter_witnesses)]

\* ---------------------------------------------------------------- wallets

\* A wallet is the set of the key ids (20 bytes each) it holds a key for.
match_id(wallet, id) == id \in wallet

\* wallet.sign(owner_id, message, ..): Some(signature), or None for an error.
\* The signature is a function of the key and the message.
sign(wallet, owner_id, message) ==
    IF owner_id \in wallet THEN Some([owner |-> owner_id, message |-> message]) ELSE None

\* while witnesses.len() <= witness_idx { witnesses.push(Default::default()) }
PadWitnesses(witnesses, witness_idx) ==
    IF Len(witnesses) <= witness_idx
    THEN witnesses \o [k \in 1..(witness_idx + 1 - Len(witnesses)) |-> EmptyWitness]
    ELSE witnesses

\* The witness args a signature is put into: those of the witness, or the
\* default ones for an empty witness.
CurrentWitness(witness_data) ==
    IF witness_data.kind = "empty" THEN WitnessArgsDefault ELSE from_slice(witness_data)[1]

\* ------------------------------------------------ Secp256k1SighashSigner

\* A put that starts from default witness args, not from the current ones.
SighashPutSignature_FromDefault(current_witness, signature) ==
    [WitnessArgsDefault EXCEPT !.lock = Some(Lock(<<>>, <<Some(signature)>>))]

\* The witness args with the signature as their lock (signer.rs 173-176).
SighashPutSignature(current_witness, signature) ==
    [current_witness EXCEPT !.lock = Some(Lock(<<>>, <<Some(signature)>>))]

\* Secp256k1SighashSigner::sign_tx_with_owner_id
sign_tx_with_owner_id(wallet, owner_id, t, group) ==
    LET witness_idx == group.input_indices[1]
        witnesses == PadWitnesses(t.witnesses, witness_idx)
        tx_new == SetWitnesses(t, witnesses)
        zero_lock == Lock(<<>>, <<ZeroSlot>>)
        message == generate_message(tx_new, group, zero_lock)
    IN  IF message.tag # "Ok" THEN Err(message.err)
        ELSE
        LET signature == sign(wallet, owner_id, message.message)
        IN  IF signature = None THEN Err("Wallet")
            ELSE
            LET current_witness ==
                    SighashPutSignature(CurrentWitness(At(witnesses, witness_idx)),
                                        signature[1])
            IN  Ok(SetWitnesses(t, [witnesses EXCEPT ![witness_idx + 1] =
                                                   as_bytes(current_witness)]))

\* Secp256k1SighashSigner::sign_tx
SighashSignTx(wallet, t, group) ==
    sign_tx_with_owner_id(wallet, group.script.args, t, group)

\* ------------------------------------------------------- MultisigConfig

\* MultisigConfig::new_with: Some(config), or None for InvalidMultisigConfig.
new_with(sighash_addresses, require_first_n, threshold) ==
    IF \E i, j \in DOMAIN sighash_addresses :
          i # j /\ sighash_addresses[i] = sighash_addresses[j]
    THEN None
    ELSE IF threshold > Len(sighash_addresses) THEN None
    ELSE IF require_first_n > threshold THEN None
    ELSE Some([sighash_addresses |-> sighash_addresses,
               require_first_n |-> require_first_n,
               threshold |-> threshold])

\* MultisigConfig::to_witness_data
to_witness_data(config) ==
    <<0, config.require_first_n, config.threshold, Len(config.sighash_addresses) % 256>>
      \o Concat(config.sighash_addresses)

\* ------------------------------------------------ Secp256k1MultisigSigner

\* What the slot at byte offset idx of lock_field holds; the offsets the
\* signer visits fall on slot boundaries when the lock's prefix has the
\* length of the config data.
SlotAt(lock_field, idx) == lock_field.slots[(idx - Len(lock_field.prefix)) \div SIGNATURE_LEN + 1]

\* A placing loop that writes the signature into the first slot, whatever
\* the slot holds.
PlaceSignature_Overwrite(lock_field, idx, signature) ==
    IF idx >= LockLen(lock_field)
    THEN [tag |-> "Err", err |-> "TooManySignatures", lock_field |-> lock_field]
    ELSE IF idx + SIGNATURE_LEN > LockLen(lock_field) \/ idx < Len(lock_field.prefix)
    THEN [tag |-> "Panic", err |-> "range end index out of range", lock_field |-> lock_field]
    ELSE [tag |-> "Ok", err |-> "",
          lock_field |-> [lock_field EXCEPT
              !.slots[(idx - Len(lock_field.prefix)) \div SIGNATURE_LEN + 1] = Some(signature)]]

\* A placing loop without the test for the signature being there already.
RECURSIVE PlaceSignature_NoDedup(_, _, _)
PlaceSignature_NoDedup(lock_field, idx, signature) ==
    IF idx >= LockLen(lock_field)
    THEN [tag |-> "Err", err |-> "TooManySignatures", lock_field |-> lock_field]
    ELSE IF idx + SIGNATURE_LEN > LockLen(lock_field) \/ idx < Len(lock_field.prefix)
    THEN [tag |-> "Panic", err |-> "range end index out of range", lock_field |-> lock_field]
    ELSE IF SlotAt(lock_field, idx) = ZeroSlot
    THEN [tag |-> "Ok", err |-> "",
          lock_field |-> [lock_field EXCEPT
              !.slots[(idx - Len(lock_field.prefix)) \div SIGNATURE_LEN + 1] = Some(signature)]]
    ELSE PlaceSignature_NoDedup(lock_field, idx + SIGNATURE_LEN, signature)

\* The while loop placing one signature (signer.rs 329-342), from offset idx:
\* the lock field with the signature in, "TooManySignatures" past the end of
\* the lock, a panic when the 65-byte slice runs past it.
RECURSIVE PlaceSignature(_, _, _)
PlaceSignature(lock_field, idx, signature) ==
    IF idx >= LockLen(lock_field)
    THEN [tag |-> "Err", err |-> "TooManySignatures", lock_field |-> lock_field]
    ELSE IF idx + SIGNATURE_LEN > LockLen(lock_field) \/ idx < Len(lock_field.prefix)
    THEN [tag |-> "Panic", err |-> "range end index out of range", lock_field |-> lock_field]
    ELSE IF SlotAt(lock_field, idx) = Some(signature)
    THEN [tag |-> "Ok", err |-> "", lock_field |-> lock_field]
    ELSE IF SlotAt(lock_field, idx) = ZeroSlot
    THEN [tag |-> "Ok", err |-> "",
          lock_field |-> [lock_field EXCEPT
              !.slots[(idx - Len(lock_field.prefix)) \div SIGNATURE_LEN + 1] = Some(signature)]]
    ELSE PlaceSignature(lock_field, idx + SIGNATURE_LEN, signature)

\* A loop over the signatures without the check after the while loop: a
\* signature that found no slot is dropped.
RECURSIVE PlaceSignatures_DropExtra(_, _, _)
PlaceSignatures_DropExtra(lock_field, config_len, signatures) ==
    IF signatures = <<>> THEN [tag |-> "Ok", err |-> "", lock_field |-> lock_field]
    ELSE LET placed == PlaceSignature(lock_field, config_len, Head(signatures))
         IN  IF placed.tag = "Panic" THEN placed
             ELSE PlaceSignatures_DropExtra(placed.lock_field, config_len, Tail(signatures))

\* for signature in signatures { ... } (signer.rs 328-343)
RECURSIVE PlaceSignatures(_, _, _)
PlaceSignatures(lock_field, config_len, signatures) ==
    IF signatures = <<>> THEN [tag |-> "Ok", err |-> "", lock_field |-> lock_field]
    ELSE LET placed == PlaceSignature(lock_field, config_len, Head(signatures))
         IN  IF placed.tag # "Ok" THEN placed
             ELSE PlaceSignatures(placed.lock_field, config_len, Tail(signatures))

\* The signatures of the configured addresses the wallet matches, in the
\* order of the config (signer.rs 305-314).
MultisigSignatures(wallet, config, message) ==
    LET ids == SelectSeq(config.sighash_addresses, LAMBDA id : match_id(wallet, id))
    IN  [k \in 1..Len(ids) |-> sign(wallet, ids[k], message)]

\* Secp256k1MultisigSigner::sign_tx
MultisigSignTx(wallet, config, t, group) ==
    LET witness_idx == group.input_indices[1]
        witnesses == PadWitnesses(t.witnesses, witness_idx)
        tx_new == SetWitnesses(t, witnesses)
        config_data == to_witness_data(config)
        zero_lock == Lock(config_data, [k \in 1..config.threshold |-> ZeroSlot])
        message == generate_message(tx_new, group, zero_lock)
    IN  IF message.tag # "Ok" THEN Err(message.err)
        ELSE
        LET signatures == MultisigSignatures(wallet, config, message.message)
        IN  IF \E k \in DOMAIN signatures : signatures[k] = None THEN Err("Wallet")
            ELSE
            LET current_witness == CurrentWitness(At(witnesses, witness_idx))
                lock_field == IF current_witness.lock = None THEN zero_lock
                              ELSE current_witness.lock[1]
                placed == PlaceSignatures(lock_field, Len(config_data),
                                          [k \in DOMAIN signatures |-> signatures[k][1]])
            IN  IF placed.tag = "Err" THEN Err(placed.err)
                ELSE IF placed.tag = "Panic" THEN Panic(placed.err)
                ELSE Ok(SetWitnesses(t, [witnesses EXCEPT ![witness_idx + 1] =
                        as_bytes([current_witness EXCEPT !.lock = Some(placed.lock_field)])]))

\* ---------------------------------------- AnyoneCanPaySigner, ChequeSigner

\* AnyoneCanPaySigner::sign_tx: &args[0..20] panics on shorter args.
AnyoneCanPaySignTx(wallet, t, group) ==
    LET args == group.script.args
    IN  IF Len(args) < HASH_PREFIX_LEN THEN Panic("range end index out of range")
        ELSE sign_tx_with_owner_id(wallet, SubSeq(args, 1, HASH_PREFIX_LEN), t, group)

\* ChequeSigner::owner_id
owner_id(action, args) ==
    IF Len(args) # CHEQUE_ARGS_LEN THEN <<>>
    ELSE IF action = "Claim" THEN SubSeq(args, 1, HASH_PREFIX_LEN)
    ELSE SubSeq(args, HASH_PREFIX_LEN + 1, CHEQUE_ARGS_LEN)

\* ChequeSigner::sign_tx
ChequeSignTx(wallet, action, t, group) ==
    sign_tx_with_owner_id(wallet, owner_id(action, group.script.args), t, group)

\* ------------------------------------------------- the callers of sign_tx

\* The key ids A, B, C of the multisig addresses.
KeyIds == <<KeyHash(1), KeyHash(2), KeyHash(3)>>

\* Wallets holding one key each, and one holding the first two.
Wallets == {{KeyIds[k]} : k \in DOMAIN KeyIds} \cup {{KeyIds[1], KeyIds[2]}}

\* The multisig configs MultisigConfig::new_with accepts over the keys, of
\* every threshold, with require_first_n 1 (0 for threshold 0).
Configs ==
    {new_with(KeyIds, IF t = 0 THEN 0 ELSE 1, t)[1] :
        t \in {u \in 0..(Len(KeyIds) + 1) :
                  new_with(KeyIds, IF u = 0 THEN 0 ELSE 1, u) # None}}

NoConfig == new_with(<<>>, 0, 0)[1]

\* blake2b_256(config.to_witness_data())[0..20], the args of a multisig lock.
ConfigHash20(config) ==
    to_le_bytes(1 + config.require_first_n + 2 * config.threshold, HASH_PREFIX_LEN)

\* ------------------------------------------------------------ match_args

\* What a match_args call comes to: a boolean, or a panic.
Matched(b) == [tag |-> "Ok", value |-> b]

MatchPanic == [tag |-> "Panic", value |-> FALSE]

\* Secp256k1SighashSigner::match_args
SighashMatchArgs(wallet, args) ==
    Matched(Len(args) = HASH_PREFIX_LEN /\ match_id(wallet, args))

\* Secp256k1MultisigSigner::match_args
MultisigMatchArgs(wallet, config, args) ==
    Matched(/\ ConfigHash20(config) = args
            /\ \E i \in DOMAIN config.sighash_addresses :
                  match_id(wallet, config.sighash_addresses[i]))

\* AnyoneCanPaySigner::match_args: `&args[0..20]` is taken before the length
\* is looked at, and panics on shorter args.
AnyoneCanPayMatchArgs(wallet, args) ==
    IF Len(args) < HASH_PREFIX_LEN THEN MatchPanic
    ELSE LET id == SubSeq(args, 1, HASH_PREFIX_LEN)
         IN  Matched(/\ Len(args) >= HASH_PREFIX_LEN
                     /\ Len(args) <= HASH_PREFIX_LEN + 2
                     /\ match_id(wallet, id))

\* ChequeSigner::match_args
ChequeMatchArgs(wallet, action, args) ==
    Matched(Len(args) = CHEQUE_ARGS_LEN /\ match_id(wallet, owner_id(action, args)))

\* The signers (without their wallet) and the lock script each is used on.
SignerSessions ==
    {[kind |-> "sighash", config |-> NoConfig, action |-> "", script |-> MkScript(1, 1, KeyIds[1])]}
    \cup {[kind |-> "multisig", config |-> c, action |-> "",
           script |-> MkScript(5, 1, ConfigHash20(c))] : c \in Configs}
    \cup {[kind |-> "anyone_can_pay", config |-> NoConfig, action |-> "",
           script |-> MkScript(4, 1, a)] :
             a \in {KeyIds[1] \o <<1, 0>>, SubSeq(KeyIds[1], 1, HASH_PREFIX_LEN - 1)}}
    \cup {[kind |-> "cheque", config |-> NoConfig, action |-> act,
           script |-> MkScript(2, 1, a)] :
             act \in {"Claim", "Withdraw"},
             a \in {KeyIds[1] \o KeyIds[2], KeyIds[1] \o KeyIds[2] \o <<0>>}}

\* A signature by a key of no wallet of the model, over another message.
ForeignSignature ==
    [owner |-> KeyHash(0),
     message |-> Blake2bDigest(<<>>, EmptyWitness, <<>>, <<>>)]

\* The witnesses a transaction handed to a signer may hold: plain ones (empty,
\* or witness args with an input_type and an output_type) and odd ones (no
\* witness args, or witness args locked by a foreign 65-byte signature).
PlainWitnesses == {EmptyWitness, as_bytes(WitnessArgs(None, Some(<<7>>), Some(<<8, 9>>)))}

OddWitnesses ==
    {JunkWitness,
     as_bytes(WitnessArgs(Some(Lock(<<>>, <<Some(ForeignSignature)>>)), None, None))}

\* The witness lists of those transactions: at most one witness is odd.
InitialWitnessLists ==
    {w \in SeqUpTo(PlainWitnesses \cup OddWitnesses, MaxWitnesses) :
        Cardinality({i \in DOMAIN w : w[i] \in OddWitnesses}) <= 1}

\* The transaction handed to the signers, without its witnesses: two inputs.
UnsignedTx ==
    BuildTx(<<3>>, <<CellInput(1, 0), CellInput(10, 0)>>,
            <<[capacity |-> to_le_bytes(100, CAPACITY_LEN), lock |-> SenderA, type_ |-> None]>>,
            <<<<>>>>)

\* input_indices of the script groups: positions among the two inputs.
GroupIndices == {<<0>>, <<1>>, <<0, 1>>}

NoResult == [tag |-> "None", err |-> ""]

\* No match_args call has returned.
NoMatch == [tag |-> "None", value |-> FALSE]

\* No transaction is under signature.
SIdle ==
    /\ signer = [kind |-> "none", config |-> NoConfig, action |-> ""]
    /\ script_group = [script |-> MkScript(0, 0, <<>>), input_indices |-> <<0>>]
    /\ tx0 = NoTx /\ tx_before = NoTx /\ tx = NoTx
    /\ last_wallet = {}
    /\ sres = NoResult
    /\ repeat = FALSE
    /\ matched = NoMatch

\* Before a build_base call, no transaction under signature.
BuildInit == BInit /\ SIdle

BuildSpec == BuildInit /\ [][BNext]_vars

SInit ==
    /\ \E session \in SignerSessions, indices \in GroupIndices :
          /\ signer = [kind |-> session.kind, config |-> session.config,
                       action |-> session.action]
          /\ script_group = [script |-> session.script, input_indices |-> indices]
    /\ \E witnesses \in InitialWitnessLists :
          tx0 = SetWitnesses(UnsignedTx, witnesses)
    /\ tx = tx0
    /\ tx_before = tx0
    /\ last_wallet = {}
    /\ sres = NoResult
    /\ repeat = FALSE
    /\ matched = NoMatch

\* The caller keeps the returned transaction, or the one it had on a failure.
Signed(wallet, res) ==
    /\ tx_before' = tx
    /\ tx' = IF res.tag = "Ok" THEN res.tx ELSE tx
    /\ sres' = [tag |-> res.tag, err |-> res.err]
    /\ last_wallet' = wallet
    /\ repeat' = (sres.tag = "Ok" /\ last_wallet = wallet)
    /\ UNCHANGED <<signer, script_group, tx0, matched>>
    /\ UNCHANGED bvars

\* Secp256k1SighashSigner::new(wallet).sign_tx(tx, script_group, ..)
SighashSign ==
    /\ signer.kind = "sighash"
    /\ \E wallet \in Wallets : Signed(wallet, SighashSignTx(wallet, tx, script_group))

\* Secp256k1MultisigSigner::new(wallet, config).sign_tx(tx, script_group, ..)
MultisigSign ==
    /\ signer.kind = "multisig"
    /\ \E wallet \in Wallets :
          Signed(wallet, MultisigSignTx(wallet, signer.config, tx, script_group))

\* AnyoneCanPaySigner { sighash_signer }.sign_tx(tx, script_group, ..)
AnyoneCanPaySign ==
    /\ signer.kind = "anyone_can_pay"
    /\ \E wallet \in Wallets : Signed(wallet, AnyoneCanPaySignTx(wallet, tx, script_group))

\* ChequeSigner::new(sighash_signer, action).sign_tx(tx, script_group, ..)
ChequeSign ==
    /\ signer.kind = "cheque"
    /\ \E wallet \in Wallets :
          Signed(wallet, ChequeSignTx(wallet, signer.action, tx, script_group))

SNext == SighashSign \/ MultisigSign \/ AnyoneCanPaySign \/ ChequeSign

\* A transaction handed to a signer, no builder at work.
SignInit == BInit /\ SInit

SignSpec == SignInit /\ [][SNext]_vars

\* ------------------------------------------------ the callers of match_args

\* The args match_args is asked about: ids, config hashes and cheque args,
\* cut short or extended by up to three bytes.
MatchArgsSet ==
    LET ids == {KeyIds[k] : k \in DOMAIN KeyIds} \cup {ConfigHash20(c) : c \in Configs}
        long == {id \o <<1, 0, 1>> : id \in ids}
                  \cup {KeyIds[1] \o KeyIds[2] \o <<0>>, KeyIds[2] \o KeyIds[3] \o <<0>>}
        lens == {0, HASH_PREFIX_LEN - 1, HASH_PREFIX_LEN, HASH_PREFIX_LEN + 1,
                 HASH_PREFIX_LEN + 2, HASH_PREFIX_LEN + 3,
                 CHEQUE_ARGS_LEN - 1, CHEQUE_ARGS_LEN, CHEQUE_ARGS_LEN + 1}
    IN  UNION {{SubSeq(a, 1, n) : n \in {m \in lens : m <= Len(a)}} : a \in long}

\* A signer and a lock script whose args it is asked about.
MatchInit ==
    /\ BInit
    /\ \E session \in SignerSessions, args \in MatchArgsSet :
          /\ signer = [kind |-> session.kind, config |-> session.config,
                       action |-> session.action]
          /\ script_group = [script |-> [session.script EXCEPT !.args = args],
                             input_indices |-> <<0>>]
    /\ tx0 = NoTx /\ tx_before = NoTx /\ tx = NoTx
    /\ last_wallet = {}
    /\ sres = NoResult
    /\ repeat = FALSE
    /\ matched = NoMatch

\* The caller keeps what match_args came to.
MatchedWith(wallet, res) ==
    /\ matched' = res
    /\ last_wallet' = wallet
    /\ UNCHANGED <<signer, script_group, tx0, tx_before, tx, sres, repeat>>
    /\ UNCHANGED bvars

\* Secp256k1SighashSigner::new(wallet).match_args(args)
SighashMatch ==
    /\ signer.kind = "sighash"
    /\ \E wallet \in Wallets :
          MatchedWith(wallet, SighashMatchArgs(wallet, script_group.script.args))

\* Secp256k1MultisigSigner::new(wallet, config).match_args(args)
MultisigMatch ==
    /\ signer.kind = "multisig"
    /\ \E wallet \in Wallets :
          MatchedWith(wallet, MultisigMatchArgs(wallet, signer.config, script_group.script.args))

\* AnyoneCanPaySigner { sighash_signer }.match_args(args)
AnyoneCanPayMatch ==
    /\ signer.kind = "anyone_can_pay"
    /\ \E wallet \in Wallets :
          MatchedWith(wallet, AnyoneCanPayMatchArgs(wallet, script_group.script.args))

\* ChequeSigner::new(sighash_signer, action).match_args(args)
ChequeMatch ==
    /\ signer.kind = "cheque"
    /\ \E wallet \in Wallets :
          MatchedWith(wallet, ChequeMatchArgs(wallet, signer.action, script_group.script.args))

MNext == SighashMatch \/ MultisigMatch \/ AnyoneCanPayMatch \/ ChequeMatch

MatchSpec == MatchInit /\ [][MNext]_vars

\* -------------------------------------------------- properties: signers

\* The witness of transaction t at the script group's first input index
\* (an absent one counts as empty: the signers pad with empty witnesses).
GroupWitness(t) ==
    IF Len(t.witnesses) > script_group.input_indices[1]
    THEN At(t.witnesses, script_group.input_indices[1])
    ELSE EmptyWitness

\* The slots of the lock of that witness.
GroupSlots(t) == IF GroupWitness(t).lock = None THEN <<>> ELSE GroupWitness(t).lock[1].slots

\* The signatures in those slots.
GroupSignatures(t) == {GroupSlots(t)[i][1] : i \in {j \in DOMAIN GroupSlots(t) : GroupSlots(t)[j] # ZeroSlot}}

SingleKey(wallet) == Cardinality(wallet) = 1

Configured(wallet) == \E i \in DOMAIN signer.config.sighash_addresses :
                          signer.config.sighash_addresses[i] \in wallet

\* sign_tx by the signer of this behaviour with the given wallet.
SignTxWith(wallet, t) ==
    IF signer.kind = "sighash" THEN SighashSignTx(wallet, t, script_group)
    ELSE IF signer.kind = "multisig" THEN MultisigSignTx(wallet, signer.config, t, script_group)
    ELSE IF signer.kind = "anyone_can_pay" THEN AnyoneCanPaySignTx(wallet, t, script_group)
    ELSE ChequeSignTx(wallet, signer.action, t, script_group)

\* A (the last wallet, which signed tx_before into tx) and B are wallets of
\* one configured key each, of a multisig config of threshold >= 2.
TwoSigners(B) ==
    /\ signer.kind = "multisig" /\ signer.config.threshold >= 2
    /\ sres.tag = "Ok" /\ last_wallet # {}
    /\ SingleKey(last_wallet) /\ Configured(last_wallet)
    /\ SingleKey(B) /\ Configured(B) /\ B # last_wallet
    /\ MultisigSignTx(B, signer.config, tx, script_group).tag = "Ok"

\* tx_before signed by A then B, and by B then A.
SignedAB(B) == MultisigSignTx(B, signer.config, tx, script_group)

SignedBA(B) ==
    MultisigSignTx(last_wallet, signer.config,
                   MultisigSignTx(B, signer.config, tx_before, script_group).tx,
                   script_group)

\* C6 as stated: signing with A's wallet then B's gives the same transaction
\* as signing with B's wallet then A's.
C6_Commutative ==
    \A B \in Wallets : TwoSigners(B) => SignedBA(B) = SignedAB(B)

\* q with the entries at positions i and j exchanged.
Swapped(q, i, j) ==
    [k \in DOMAIN q |-> IF k = i THEN q[j] ELSE IF k = j THEN q[i] ELSE q[k]]

\* C6 as amended: both orders succeed and give transactions that differ at
\* most in the order of the two signatures: each signature takes the first
\* zero slot at the time it is placed, so when both are new the slots of A
\* and B are exchanged between the two orders (A-then-B holds sig_A before
\* sig_B, B-then-A sig_B before sig_A), and when either was already in the
\* lock the two transactions are equal. Everything but those two slots is equal.
C6_SameSignaturesInSigningOrder ==
    \A B \in Wallets : TwoSigners(B) =>
        LET ab == SignedAB(B)
            ba == SignedBA(B)
            new == {i \in DOMAIN GroupSlots(ab.tx) :
                       /\ GroupSlots(ab.tx)[i] # ZeroSlot
                       /\ GroupSlots(ab.tx)[i][1] \notin GroupSignatures(tx_before)}
        IN  /\ ba.tag = "Ok"
            /\ GroupSignatures(ba.tx) = GroupSignatures(ab.tx)
            /\ IF Cardinality(new) = 2
               THEN \E i, j \in new :
                      /\ i < j
                      /\ GroupSlots(ab.tx)[i][1].owner \in last_wallet
                      /\ GroupSlots(ab.tx)[j][1].owner \in B
                      /\ GroupSlots(ba.tx) = Swapped(GroupSlots(ab.tx), i, j)
                      /\ ba.tx = SetWitnesses(ab.tx,
                            [ab.tx.witnesses EXCEPT ![script_group.input_indices[1] + 1] =
                                [@ EXCEPT !.lock = Some(Lock(@[1].prefix, GroupSlots(ba.tx)))]])
               ELSE ba.tx = ab.tx

\* C6's case: a second signer can still sign after the first, and both
\* signatures are new.
C6_Witness ==
    \E B \in Wallets :
        /\ TwoSigners(B)
        /\ Cardinality(GroupSignatures(SignedAB(B).tx) \ GroupSignatures(tx_before)) = 2

\* The zero lock the signer of this behaviour computes its message with.
SignerZeroLock ==
    IF signer.kind = "multisig"
    THEN Lock(to_witness_data(signer.config), [k \in 1..signer.config.threshold |-> ZeroSlot])
    ELSE Lock(<<>>, <<ZeroSlot>>)

MessageOf(t) ==
    generate_message(SetWitnesses(t, PadWitnesses(t.witnesses, script_group.input_indices[1])),
                     script_group, SignerZeroLock)

\* C7: a sign_tx call that repeats a successful call of the same signer
\* (same wallet, transaction as returned, same script group) succeeds, signs
\* the same message and returns the transaction unchanged.
C7_Idempotent ==
    repeat => /\ sres.tag = "Ok"
              /\ tx = tx_before
              /\ MessageOf(tx) = MessageOf(tx_before)
              /\ SignTxWith(last_wallet, tx) = Ok(tx)

\* C7's case: a multisig signer with a free slot left signs a second time.
C7_Witness ==
    /\ repeat /\ signer.kind = "multisig"
    /\ GroupSignatures(tx) # {}
    /\ \E i \in DOMAIN GroupSlots(tx) : GroupSlots(tx)[i] = ZeroSlot

\* The configured addresses the wallet holds.
AddressesOf(wallet) ==
    {signer.config.sighash_addresses[i] : i \in DOMAIN signer.config.sighash_addresses} \cap wallet

Owners(sigs) == {sig.owner : sig \in sigs}

\* C8: from an empty witness, multisig sign_tx calls succeed while the
\* signatures asked for (those in the lock and those of the calling wallet,
\* all distinct) number at most the threshold; the call that needs one slot
\* more fails with TooManySignatures and leaves the transaction as it was.
C8_TooManySignatures ==
    (signer.kind = "multisig" /\ GroupWitness(tx0).kind = "empty" /\ last_wallet # {}) =>
        LET wanted == Owners(GroupSignatures(tx_before)) \cup AddressesOf(last_wallet)
        IN  IF Cardinality(wanted) <= signer.config.threshold
            THEN /\ sres.tag = "Ok"
                 /\ Owners(GroupSignatures(tx)) = wanted
                 /\ Cardinality(GroupSignatures(tx)) = Cardinality(wanted)
            ELSE /\ sres = [tag |-> "Err", err |-> "TooManySignatures"]
                 /\ tx = tx_before
                 /\ Cardinality(GroupSignatures(tx)) <= signer.config.threshold

\* C8's case: threshold signatures are in and one more is refused.
C8_Witness ==
    /\ signer.kind = "multisig" /\ GroupWitness(tx0).kind = "empty"
    /\ signer.config.threshold >= 2
    /\ Cardinality(GroupSignatures(tx)) = signer.config.threshold
    /\ sres = [tag |-> "Err", err |-> "TooManySignatures"]

\* C9: a successful sign_tx changes nothing but the lock of the witness at
\* input_indices[0]: the rest of the transaction, every other witness there
\* was, and the input_type and output_type of that witness are as before.
C9_OnlyTheLockChanges ==
    sres.tag = "Ok" =>
        /\ TxHash(tx) = TxHash(tx_before)
        /\ Len(tx.witnesses) >= Len(tx_before.witnesses)
        /\ \A i \in DOMAIN tx_before.witnesses :
              i # script_group.input_indices[1] + 1 => tx.witnesses[i] = tx_before.witnesses[i]
        /\ GroupWitness(tx).kind = "args"
        /\ GroupWitness(tx).input_type = GroupWitness(tx_before).input_type
        /\ GroupWitness(tx).output_type = GroupWitness(tx_before).output_type
        /\ GroupWitness(tx).lock # None

\* C9's case: a witness with an input_type and an output_type is signed, in
\* a transaction with other witnesses.
C9_Witness ==
    /\ sres.tag = "Ok" /\ signer.kind = "cheque"
    /\ GroupWitness(tx_before).input_type # None
    /\ GroupWitness(tx_before).lock = None
    /\ Len(tx_before.witnesses) = MaxWitnesses

\* C14: once a multisig sign_tx call has succeeded on a transaction whose
\* witness at input_indices[0] was empty, the lock of that witness is
\* header(4) || addresses(20 n) || slots(65 threshold): its prefix is the
\* config's witness data, of 4 + 20 n bytes and starting with the header
\* <<0, require_first_n, threshold, n>>, followed by threshold slots; the
\* filled slots come before the zero ones, no signature is in two slots, and
\* the slots filled before the last call hold what they held.
C14_LockLayout ==
    (signer.kind = "multisig" /\ GroupWitness(tx0).kind = "empty"
       /\ GroupWitness(tx).lock # None) =>
        LET lock == GroupWitness(tx).lock[1]
            slots == lock.slots
            n == Len(signer.config.sighash_addresses)
        IN  /\ lock.prefix = to_witness_data(signer.config)
            /\ Len(lock.prefix) = 4 + HASH_PREFIX_LEN * n
            /\ SubSeq(lock.prefix, 1, 4)
                  = <<0, signer.config.require_first_n, signer.config.threshold, n>>
            /\ Len(slots) = signer.config.threshold
            /\ LockLen(lock) = 4 + HASH_PREFIX_LEN * n + SIGNATURE_LEN * signer.config.threshold
            /\ \A i, j \in DOMAIN slots : (i < j /\ slots[i] = ZeroSlot) => slots[j] = ZeroSlot
            /\ \A i, j \in DOMAIN slots :
                  (i # j /\ slots[i] # ZeroSlot) => slots[i] # slots[j]
            /\ \A i \in DOMAIN GroupSlots(tx_before) :
                  GroupSlots(tx_before)[i] # ZeroSlot => slots[i] = GroupSlots(tx_before)[i]

\* C14's case: a second signature has been put after the first, in a lock
\* that has a zero slot left.
C14_Witness ==
    /\ signer.kind = "multisig" /\ GroupWitness(tx0).kind = "empty"
    /\ sres.tag = "Ok"
    /\ Cardinality(GroupSignatures(tx_before)) = 1
    /\ Cardinality(GroupSignatures(tx)) = 2
    /\ GroupSlots(tx)[Len(GroupSlots(tx))] = ZeroSlot

\* t with witness w at the 1-based position p (added when p is one past the
\* last witness).
ReplaceWitness(t, p, w) ==
    SetWitnesses(t, IF p <= Len(t.witnesses) THEN [t.witnesses EXCEPT ![p] = w]
                    ELSE Append(t.witnesses, w))

\* The positions within the inputs that are not of the script group and hold
\* a witness or can be given one.
OtherPositions(t) ==
    {p \in 1..Len(t.inputs) :
        /\ p <= Len(t.witnesses) + 1
        /\ \A k \in DOMAIN script_group.input_indices : script_group.input_indices[k] # p - 1}

\* The positions past the inputs that hold a witness or can be given one.
OuterPositions(t) ==
    {p \in (Len(t.inputs) + 1)..(Len(t.witnesses) + 1) : Len(t.witnesses) >= Len(t.inputs)}

\* t with the lock of the group's first witness replaced by the zero lock.
WithZeroLock(t) ==
    LET witnesses == PadWitnesses(t.witnesses, script_group.input_indices[1])
        p == script_group.input_indices[1] + 1
    IN  SetWitnesses(t, [witnesses EXCEPT ![p] =
            as_bytes([CurrentWitness(witnesses[p]) EXCEPT !.lock = Some(SignerZeroLock)])])

\* The signatures of the model's wallets in the lock of the group's first witness.
OwnSignatures(t) == {sig \in GroupSignatures(t) : sig # ForeignSignature}

\* C15: the digest of a transaction under signature (when there is one) is
\* the same after a witness within the inputs, at a position that is not of
\* the script group, is changed or added; it is another after an outer
\* witness is changed or added; and with the lock of the group's first
\* witness replaced by the zero lock it is the message every signature in
\* that lock was made over.
C15_DigestDependsOn ==
    MessageOf(tx).tag = "Ok" =>
        /\ \A p \in OtherPositions(tx), w \in PlainWitnesses \cup OddWitnesses :
              MessageOf(ReplaceWitness(tx, p, w)) = MessageOf(tx)
        /\ \A p \in OuterPositions(tx), w \in PlainWitnesses \cup OddWitnesses :
              (p > Len(tx.witnesses) \/ w # tx.witnesses[p]) =>
                  /\ MessageOf(ReplaceWitness(tx, p, w)).tag = "Ok"
                  /\ MessageOf(ReplaceWitness(tx, p, w)) # MessageOf(tx)
        /\ \A sig \in OwnSignatures(tx) :
              MessageOf(WithZeroLock(tx)) = [MessageOf(tx) EXCEPT !.message = sig.message]

\* C15's case: a signed transaction with a witness of another input and an
\* outer witness.
C15_Witness ==
    /\ sres.tag = "Ok" /\ OwnSignatures(tx) # {}
    /\ Len(script_group.input_indices) = 1
    /\ Len(tx.witnesses) > Len(tx.inputs)
    /\ \E p \in OtherPositions(tx) : tx.witnesses[p] # EmptyWitness

\* ------------------------------------------------ properties: match_args

\* C13: AnyoneCanPaySigner.match_args returns, for every args, true exactly
\* when 20 <= len(args) <= 22 and the wallet matches args[0..20], and false
\* otherwise: it never aborts.
C13_MatchArgsTotal ==
    (signer.kind = "anyone_can_pay" /\ matched # NoMatch) =>
        LET args == script_group.script.args
        IN  matched = Matched(/\ Len(args) >= HASH_PREFIX_LEN
                              /\ Len(args) <= HASH_PREFIX_LEN + 2
                              /\ SubSeq(args, 1, HASH_PREFIX_LEN) \in last_wallet)

====
